---- MODULE Spec2Model ----
(***************************************************************************)
(* Model of the evaluation driver of the event tagger                      *)
(* (src/app/services/evaluation.py, evaluate_all and load_evaluation_data) *)
(* as called by the route GET /events/evaluate                             *)
(* (src/app/api/routes/events.py, evaluate_tagging_performance).           *)
(*                                                                         *)
(* process_single_event is the environment of evaluate_all: per item it    *)
(* either raises or returns a response whose tag_triple carries tag1,      *)
(* tag2, tag3 and confidence, the four fields evaluate_all reads.          *)
(*                                                                         *)
(* Spec runs evaluate_all over CSV files of up to MaxItems rows drawn from *)
(* SmallRows, with predictions from SmallResponses.  SpecItem runs it over *)
(* every one-row file and every prediction over Tags.                      *)
(*                                                                         *)
(* Encodings                                                               *)
(*   - Python None is the string None; the empty string is "".             *)
(*   - Optional[int] match_priority uses NoRank for None.                  *)
(*   - a confidence is an integer number of hundredths.                    *)
(*   - a ratio x / y is the pair <<x, y>>, 0.0 is <<0, 1>>.                *)
(*   - the sum of 1.0 / match_priority is kept in sixths (6, 3, 2).        *)
(*   - an insertion-ordered dict is a sequence of <<key, value>> pairs;    *)
(*     tp_counts, fp_counts and fn_counts are only ever summed, so they    *)
(*     are functions from tags to counts.                                  *)
(***************************************************************************)
EXTENDS Integers, Sequences, FiniteSets, TLC

VARIABLES
    csv_rows,                     \* rows of the test-set CSV file (environment)
    evaluation_data,              \* module global evaluation_data
    pc,                           \* position of evaluate_all
    results,                      \* results: List[EvaluationResult]
    total_confidence,
    confusion_counter,
    tp_counts,
    fp_counts,
    fn_counts,
    per_tag_total,
    per_tag_correct,
    correct_predictions_overall,
    report,                       \* what evaluate_all returns (or None)
    predict_calls,                \* arrangements handed to process_single_event
    http_status,                  \* what the route answers (or None)
    second,                       \* a second call of evaluate_all: its position,
                                  \* the list it iterates, its locals, its return
    event                         \* one call of process_single_event

vars == <<csv_rows, evaluation_data, pc, results, total_confidence,
          confusion_counter, tp_counts, fp_counts, fn_counts, per_tag_total,
          per_tag_correct, correct_predictions_overall, report, predict_calls,
          http_status, second, event>>

----------------------------------------------------------------------------
(* Bounds and input alphabets *)

\* the largest number of rows of the CSV file in Spec
MaxItems == 3

None == "None"

NoRank == 0

\* Tag names that may occur in the CSV file and in predictions.
Tags == {"A", "B", "C", "D"}

\* A CSV row: the cells Underkategori1..3, "" for an empty cell.
AllRows == [1..3 -> Tags \cup {""}]

\* Rows of the multi-item runs: contiguous and non-contiguous priorities,
\* one to three tags.
SmallRows ==
    { <<"A", "B", "C">>, <<"A", "", "B">>, <<"B", "", "">>, <<"", "D", "">> }

\* What process_single_event hands back: it raises, or it returns a response
\* whose tag_triple carries tag1..tag3 and a confidence.
Raises == [raises |-> TRUE]

Triple(t1, t2, t3, c) ==
    [raises |-> FALSE, tag1 |-> t1, tag2 |-> t2, tag3 |-> t3, confidence |-> c]

AllResponses ==
    {Raises} \cup
    { Triple(t1, t2, t3, c) :
        t1 \in Tags \cup {None, ""}, t2 \in Tags \cup {None, ""},
        t3 \in Tags \cup {None, ""}, c \in {0, 90} }

SmallResponses ==
    { Raises,
      Triple("A", "B", "C", 90), Triple("A", "B", "", 90),
      Triple("B", "C", None, 50), Triple("C", None, None, 50),
      Triple(None, None, None, 0) }

----------------------------------------------------------------------------
(* Helpers: insertion-ordered dicts, sums *)

DictKeys(d) == { d[j][1] : j \in 1..Len(d) }

DictGet(d, k) ==
    IF k \in DictKeys(d)
    THEN d[CHOOSE j \in 1..Len(d) : d[j][1] = k][2]
    ELSE 0

\* d[k] += 1 on a defaultdict(int)
DictInc(d, k) ==
    IF k \in DictKeys(d)
    THEN [j \in 1..Len(d) |-> IF d[j][1] = k THEN <<k, d[j][2] + 1>> ELSE d[j]]
    ELSE Append(d, <<k, 1>>)

RECURSIVE DictSum(_)
DictSum(d) == IF d = <<>> THEN 0 ELSE d[1][2] + DictSum(Tail(d))

RECURSIVE MapSum(_, _)
MapSum(f, S) ==
    IF S = {} THEN 0
    ELSE LET x == CHOOSE y \in S : TRUE IN f[x] + MapSum(f, S \ {x})

\* x or None / x or 0.0
OrNone(x) == IF x = "" \/ x = None THEN None ELSE x

Truthy(x) == x # None /\ x # ""

----------------------------------------------------------------------------
(* load_evaluation_data *)

\* ground_truth_tags of one CSV row: one entry per non-empty Underkategori{j}
RECURSIVE RowTagsFrom(_, _)
RowTagsFrom(row, j) ==
    IF j > 3 THEN <<>>
    ELSE (IF row[j] # ""
          THEN <<[tag |-> row[j], priority |-> j]>>
          ELSE <<>>) \o RowTagsFrom(row, j + 1)

RowTags(row) == RowTagsFrom(row, 1)

\* the rows kept: those with at least one tag; the row number is the
\* arrangement's identifier
RECURSIVE LoadFrom(_, _)
LoadFrom(rows, n) ==
    IF n > Len(rows) THEN <<>>
    ELSE (IF RowTags(rows[n]) # <<>>
          THEN <<[arrangement_nummer |-> n, ground_truth_tags |-> RowTags(rows[n])]>>
          ELSE <<>>) \o LoadFrom(rows, n + 1)

LoadEvaluationData(rows) == LoadFrom(rows, 1)

----------------------------------------------------------------------------
(* evaluate_all: one item *)

\* sorted(gt_list, key=priority): stable insertion sort
RECURSIVE InsertByPriority(_, _)
InsertByPriority(s, d) ==
    IF s = <<>> THEN <<d>>
    ELSE IF d.priority < s[1].priority THEN <<d>> \o s
    ELSE <<s[1]>> \o InsertByPriority(Tail(s), d)

RECURSIVE SortedGt(_)
SortedGt(gt_list) ==
    IF gt_list = <<>> THEN <<>>
    ELSE InsertByPriority(SortedGt(SubSeq(gt_list, 1, Len(gt_list) - 1)),
                          gt_list[Len(gt_list)])

\* [d["tag"] for d in sorted_gt], padded up to 3 slots with None
GroundTruthTags(gt_list) ==
    LET sorted_gt == SortedGt(gt_list)
    IN [idx \in 1..3 |-> IF idx <= Len(sorted_gt) THEN sorted_gt[idx].tag ELSE None]

\* MatchPriority with enumerate counting from 0
MatchPriorityFromZero(ground_truth_tags, predicted_tag1) ==
    LET hits == { idx \in 1..3 : /\ ground_truth_tags[idx] # None
                                 /\ predicted_tag1 = ground_truth_tags[idx] }
    IN IF hits = {} THEN NoRank
       ELSE (CHOOSE idx \in hits : \A other \in hits : idx <= other) - 1

\* the matching loop: first slot idx (from 1) whose tag equals predicted_tag1
MatchPriority(ground_truth_tags, predicted_tag1) ==
    LET hits == { idx \in 1..3 : /\ ground_truth_tags[idx] # None
                                 /\ predicted_tag1 = ground_truth_tags[idx] }
    IN IF hits = {} THEN NoRank
       ELSE CHOOSE idx \in hits : \A other \in hits : idx <= other

\* is_correct = matched
IsCorrect(match_priority) == match_priority # NoRank

\* CorrectAfter without the test of is_correct
CorrectAfterAlways(count, is_correct) == count + 1

\* if is_correct: correct_predictions_overall += 1
CorrectAfter(count, is_correct) == IF is_correct THEN count + 1 ELSE count

\* next((t for t in ground_truth_tags if t), None)
TrueNonnull(ground_truth_tags) ==
    LET some == { idx \in 1..3 : Truthy(ground_truth_tags[idx]) }
    IN IF some = {} THEN None
       ELSE ground_truth_tags[CHOOSE idx \in some : \A other \in some : idx <= other]

\* f"{true_nonnull} -> {predicted_tag1}"
ConfusionKey(true_nonnull, predicted_tag1) ==
    true_nonnull \o " -> " \o predicted_tag1

\* ConfusionAfter without the test of is_correct
ConfusionAfterAlways(counter, ground_truth_tags, predicted_tag1, is_correct) ==
    IF Truthy(predicted_tag1) /\ Truthy(TrueNonnull(ground_truth_tags))
    THEN DictInc(counter, ConfusionKey(TrueNonnull(ground_truth_tags), predicted_tag1))
    ELSE counter

\* if predicted_tag1 and not is_correct: confusion_counter[key] += 1
ConfusionAfter(counter, ground_truth_tags, predicted_tag1, is_correct) ==
    IF Truthy(predicted_tag1) /\ ~is_correct /\ Truthy(TrueNonnull(ground_truth_tags))
    THEN DictInc(counter, ConfusionKey(TrueNonnull(ground_truth_tags), predicted_tag1))
    ELSE counter

\* for t in ground_truth_tags: if t: per_tag_total[t] += 1
RECURSIVE CountTagsFrom(_, _, _)
CountTagsFrom(total, ground_truth_tags, idx) ==
    IF idx > 3 THEN total
    ELSE CountTagsFrom(IF Truthy(ground_truth_tags[idx])
                       THEN DictInc(total, ground_truth_tags[idx])
                       ELSE total,
                       ground_truth_tags, idx + 1)

\* PerTagTotalAfter counting the first slot only
PerTagTotalFirstOnly(total, ground_truth_tags) ==
    IF Truthy(ground_truth_tags[1]) THEN DictInc(total, ground_truth_tags[1]) ELSE total

\* PerTagTotalAfter running the loop over the ground-truth tags twice
PerTagTotalTwice(total, ground_truth_tags) ==
    CountTagsFrom(CountTagsFrom(total, ground_truth_tags, 1), ground_truth_tags, 1)

PerTagTotalAfter(total, ground_truth_tags) == CountTagsFrom(total, ground_truth_tags, 1)

\* all_tags_in_dataset
AllTagsInDataset(ground_truth_tags, predicted_tag1) ==
    { ground_truth_tags[idx] : idx \in { k \in 1..3 : Truthy(ground_truth_tags[k]) } }
    \cup (IF Truthy(predicted_tag1) THEN {predicted_tag1} ELSE {})

InTrue(t, ground_truth_tags) == \E idx \in 1..3 : ground_truth_tags[idx] = t

\* TpAfter with in_true testing the first slot only
TpAfterFirstSlot(tp, ground_truth_tags, predicted_tag1) ==
    [t \in DOMAIN tp |->
        IF /\ t \in AllTagsInDataset(ground_truth_tags, predicted_tag1)
           /\ t = predicted_tag1 /\ ground_truth_tags[1] = t
        THEN tp[t] + 1 ELSE tp[t]]

TpAfter(tp, ground_truth_tags, predicted_tag1) ==
    [t \in DOMAIN tp |->
        IF /\ t \in AllTagsInDataset(ground_truth_tags, predicted_tag1)
           /\ t = predicted_tag1 /\ InTrue(t, ground_truth_tags)
        THEN tp[t] + 1 ELSE tp[t]]

\* FpAfter without the test of in_true
FpAfterEveryPrediction(fp, ground_truth_tags, predicted_tag1) ==
    [t \in DOMAIN fp |->
        IF /\ t \in AllTagsInDataset(ground_truth_tags, predicted_tag1)
           /\ t = predicted_tag1
        THEN fp[t] + 1 ELSE fp[t]]

FpAfter(fp, ground_truth_tags, predicted_tag1) ==
    [t \in DOMAIN fp |->
        IF /\ t \in AllTagsInDataset(ground_truth_tags, predicted_tag1)
           /\ t = predicted_tag1 /\ ~InTrue(t, ground_truth_tags)
        THEN fp[t] + 1 ELSE fp[t]]

\* FnAfter counting the predicted tag as missed too
FnAfterEveryTruth(fn, ground_truth_tags, predicted_tag1) ==
    [t \in DOMAIN fn |->
        IF /\ t \in AllTagsInDataset(ground_truth_tags, predicted_tag1)
           /\ InTrue(t, ground_truth_tags)
        THEN fn[t] + 1 ELSE fn[t]]

FnAfter(fn, ground_truth_tags, predicted_tag1) ==
    [t \in DOMAIN fn |->
        IF /\ t \in AllTagsInDataset(ground_truth_tags, predicted_tag1)
           /\ t # predicted_tag1 /\ InTrue(t, ground_truth_tags)
        THEN fn[t] + 1 ELSE fn[t]]

\* PerTagCorrectAfter without the test of is_correct
PerTagCorrectAfterAnyPrediction(correct, predicted_tag1, is_correct) ==
    IF Truthy(predicted_tag1) THEN DictInc(correct, predicted_tag1) ELSE correct

\* if is_correct and predicted_tag1: per_tag_correct[predicted_tag1] += 1
PerTagCorrectAfter(correct, predicted_tag1, is_correct) ==
    IF is_correct /\ Truthy(predicted_tag1)
    THEN DictInc(correct, predicted_tag1)
    ELSE correct

\* ground_truth_tags=[t for t in ground_truth_tags if t]
RECURSIVE CompactFrom(_, _)
CompactFrom(ground_truth_tags, idx) ==
    IF idx > 3 THEN <<>>
    ELSE (IF Truthy(ground_truth_tags[idx]) THEN <<ground_truth_tags[idx]>> ELSE <<>>)
         \o CompactFrom(ground_truth_tags, idx + 1)

EvaluationResult(item, p1, p2, p3, conf, is_correct, match_priority, error_msg) ==
    [ arrangement_id       |-> item.arrangement_nummer,
      predicted_tag1       |-> p1,
      predicted_tag2       |-> p2,
      predicted_tag3       |-> p3,
      predicted_confidence |-> conf,
      ground_truth_tags    |-> CompactFrom(GroundTruthTags(item.ground_truth_tags), 1),
      is_correct           |-> is_correct,
      match_priority       |-> match_priority,
      error_message        |-> error_msg ]

----------------------------------------------------------------------------
(* State machine *)

\* the locals evaluate_all creates at step 2
FreshCounters ==
    [ results                     |-> <<>>,
      total_confidence            |-> 0,
      confusion_counter           |-> <<>>,
      tp_counts                   |-> [t \in Tags |-> 0],
      fp_counts                   |-> [t \in Tags |-> 0],
      fn_counts                   |-> [t \in Tags |-> 0],
      per_tag_total               |-> <<>>,
      per_tag_correct             |-> <<>>,
      correct_predictions_overall |-> 0 ]

\* no second call of evaluate_all has been made
NoSecondRun == [pc |-> "absent", items |-> <<>>, run |-> FreshCounters, report |-> None]

\* nothing returned yet, no sensitivity check made yet
NoResponse == [status |-> None, error_message |-> None, needs_human_review |-> FALSE]

NoCheck == [contains_sensitive_content |-> FALSE]

\* no call of process_single_event is being followed
NoEvent ==
    [ pc |-> "absent", request |-> None, forced_init |-> FALSE, validated |-> None,
      calls |-> <<>>, sensitivity_check |-> NoCheck, needs_review |-> FALSE,
      response |-> NoResponse ]

InitRun ==
    /\ evaluation_data = <<>>
    /\ pc = "start"
    /\ results = <<>>
    /\ total_confidence = 0
    /\ confusion_counter = <<>>
    /\ tp_counts = [t \in Tags |-> 0]
    /\ fp_counts = [t \in Tags |-> 0]
    /\ fn_counts = [t \in Tags |-> 0]
    /\ per_tag_total = <<>>
    /\ per_tag_correct = <<>>
    /\ correct_predictions_overall = 0
    /\ report = None
    /\ predict_calls = <<>>
    /\ http_status = None
    /\ second = NoSecondRun
    /\ event = NoEvent

\* a row whose Underkategori cells are all empty
EmptyRow == <<"", "", "">>

\* Runs over files of up to MaxItems rows: rows of SmallRows, or rows
\* without any tag.
Init ==
    /\ csv_rows \in UNION { [1..n -> SmallRows] \cup [1..n -> {EmptyRow}] :
                              n \in 0..MaxItems }
    /\ InitRun

\* Runs over files of one row, every row and every prediction.
InitItem ==
    /\ csv_rows \in [1..1 -> AllRows]
    /\ InitRun

----------------------------------------------------------------------------
(* evaluate_all: overall metrics *)

\* x / y if y > 0 else 0.0
Ratio(x, y) == IF y > 0 THEN <<x, y>> ELSE <<0, 1>>

RatioLeq(a, b) == a[1] * b[2] <= b[1] * a[2]

RatioLess(a, b) == a[1] * b[2] < b[1] * a[2]

\* sum(1 for r in results if r.match_priority in ranks)
RECURSIVE CountRanks(_, _)
CountRanks(rs, ranks) ==
    IF rs = <<>> THEN 0
    ELSE (IF rs[1].match_priority \in ranks THEN 1 ELSE 0) + CountRanks(Tail(rs), ranks)

\* CorrectAt1 counting every match
CorrectAt1AnyRank(rs) == CountRanks(rs, {1, 2, 3})

CorrectAt1(rs) == CountRanks(rs, {1})

\* CorrectAt2 with == 2 for in (1, 2)
CorrectAt2Only(rs) == CountRanks(rs, {2})

CorrectAt2(rs) == CountRanks(rs, {1, 2})

\* CorrectAt3 counting every result
CorrectAt3All(rs) == Len(rs)

CorrectAt3(rs) == CountRanks(rs, {1, 2, 3})

\* the reconstructed slots gt1, gt2, gt3 of a result
Gt1(r) == r.ground_truth_tags[1]

Gt2(r) == IF Len(r.ground_truth_tags) > 1 THEN r.ground_truth_tags[2] ELSE None

Gt3(r) == IF Len(r.ground_truth_tags) > 2 THEN r.ground_truth_tags[3] ELSE None

\* ExactAt2 without the condition on the first slot
ExactAt2SecondOnly(r) ==
    \/ (Gt2(r) = None /\ r.predicted_tag2 = None)
    \/ (Gt2(r) # None /\ r.predicted_tag2 = Gt2(r))

\* the EXACT@2 condition
ExactAt2(r) ==
    /\ r.predicted_tag1 = Gt1(r)
    /\ \/ (Gt2(r) = None /\ r.predicted_tag2 = None)
       \/ (Gt2(r) # None /\ r.predicted_tag2 = Gt2(r))

\* ExactAt3 without the condition on the second slot
ExactAt3NoSecond(r) ==
    /\ r.predicted_tag1 = Gt1(r)
    /\ \/ (Gt3(r) = None /\ r.predicted_tag3 = None)
       \/ (Gt3(r) # None /\ r.predicted_tag3 = Gt3(r))

\* the EXACT@3 condition
ExactAt3(r) ==
    /\ r.predicted_tag1 = Gt1(r)
    /\ \/ (Gt2(r) = None /\ r.predicted_tag2 = None)
       \/ (Gt2(r) # None /\ r.predicted_tag2 = Gt2(r))
    /\ \/ (Gt3(r) = None /\ r.predicted_tag3 = None)
       \/ (Gt3(r) # None /\ r.predicted_tag3 = Gt3(r))

RECURSIVE Exact2Count(_)
Exact2Count(rs) ==
    IF rs = <<>> THEN 0
    ELSE (IF ExactAt2(rs[1]) THEN 1 ELSE 0) + Exact2Count(Tail(rs))

RECURSIVE Exact3Count(_)
Exact3Count(rs) ==
    IF rs = <<>> THEN 0
    ELSE (IF ExactAt3(rs[1]) THEN 1 ELSE 0) + Exact3Count(Tail(rs))

\* Weight6 giving every match the weight 1.0
Weight6Flat(match_priority) == 6

\* 1.0 / match_priority, in sixths
Weight6(match_priority) == 6 \div match_priority

\* total_weight, in sixths
RECURSIVE TotalWeight6(_)
TotalWeight6(rs) ==
    IF rs = <<>> THEN 0
    ELSE (IF rs[1].match_priority # NoRank THEN Weight6(rs[1].match_priority) ELSE 0)
         + TotalWeight6(Tail(rs))

\* Precision without the test of the denominator
PrecisionNoGuard(sum_tp, sum_fp) == <<sum_tp, sum_tp + sum_fp>>

Precision(sum_tp, sum_fp) == Ratio(sum_tp, sum_tp + sum_fp)

\* Recall without the test of the denominator
RecallNoGuard(sum_tp, sum_fn) == <<sum_tp, sum_tp + sum_fn>>

Recall(sum_tp, sum_fn) == Ratio(sum_tp, sum_tp + sum_fn)

\* 2 * precision * recall / (precision + recall) if precision + recall > 0
F1Score(p, r) == Ratio(2 * p[1] * r[1], p[1] * r[2] + r[1] * p[2])

\* sorted(confusion_counter.items(), key=count, reverse=True): stable
RECURSIVE InsertByCountDesc(_, _)
InsertByCountDesc(s, e) ==
    IF s = <<>> THEN <<e>>
    ELSE IF s[1][2] < e[2] THEN <<e>> \o s
    ELSE <<s[1]>> \o InsertByCountDesc(Tail(s), e)

RECURSIVE SortedByCountDesc(_)
SortedByCountDesc(items) ==
    IF items = <<>> THEN <<>>
    ELSE InsertByCountDesc(SortedByCountDesc(SubSeq(items, 1, Len(items) - 1)),
                           items[Len(items)])

\* sorted(tag_accuracy.items(), key=accuracy, reverse=True): stable
RECURSIVE InsertByAccDesc(_, _)
InsertByAccDesc(s, e) ==
    IF s = <<>> THEN <<e>>
    ELSE IF RatioLess(s[1][2], e[2]) THEN <<e>> \o s
    ELSE <<s[1]>> \o InsertByAccDesc(Tail(s), e)

RECURSIVE SortedByAccDesc(_)
SortedByAccDesc(items) ==
    IF items = <<>> THEN <<>>
    ELSE InsertByAccDesc(SortedByAccDesc(SubSeq(items, 1, Len(items) - 1)),
                         items[Len(items)])

\* sorted(tag_accuracy.items(), key=accuracy): stable
RECURSIVE InsertByAccAsc(_, _)
InsertByAccAsc(s, e) ==
    IF s = <<>> THEN <<e>>
    ELSE IF RatioLess(e[2], s[1][2]) THEN <<e>> \o s
    ELSE <<s[1]>> \o InsertByAccAsc(Tail(s), e)

RECURSIVE SortedByAccAsc(_)
SortedByAccAsc(items) ==
    IF items = <<>> THEN <<>>
    ELSE InsertByAccAsc(SortedByAccAsc(SubSeq(items, 1, Len(items) - 1)),
                        items[Len(items)])

\* MostConfused taking the items from the last recorded to the first
MostConfusedFromLast(counter) ==
    SortedByCountDesc([j \in 1..Len(counter) |-> counter[Len(counter) + 1 - j]])

MostConfused(counter) == SortedByCountDesc(counter)

\* tag_accuracy[tag] = correct_cnt / total_cnt if total_cnt > 0 else 0.0
TagAccuracy(total, correct) ==
    [j \in 1..Len(total) |->
        <<total[j][1], Ratio(DictGet(correct, total[j][1]), total[j][2])>>]

FirstThreeTags(sorted_by_acc) ==
    [j \in 1..(IF Len(sorted_by_acc) < 3 THEN Len(sorted_by_acc) ELSE 3) |->
        sorted_by_acc[j][1]]

BestPerforming(total, correct) ==
    FirstThreeTags(SortedByAccDesc(TagAccuracy(total, correct)))

\* WorstPerforming as the descending order read from its end
WorstPerformingFromBest(total, correct) ==
    LET desc == SortedByAccDesc(TagAccuracy(total, correct))
    IN FirstThreeTags([j \in 1..Len(desc) |-> desc[Len(desc) + 1 - j]])

WorstPerforming(total, correct) ==
    FirstThreeTags(SortedByAccAsc(TagAccuracy(total, correct)))

EvaluationResponse ==
    LET N == Len(results)
        sum_tp == MapSum(tp_counts, DOMAIN tp_counts)
        sum_fp == MapSum(fp_counts, DOMAIN fp_counts)
        sum_fn == MapSum(fn_counts, DOMAIN fn_counts)
    IN [ accuracy_at_1       |-> Ratio(CorrectAt1(results), N),
         accuracy_at_2       |-> Ratio(CorrectAt2(results), N),
         accuracy_at_3       |-> Ratio(CorrectAt3(results), N),
         weighted_accuracy   |-> Ratio(TotalWeight6(results), 6 * N),
         exact_match_at_2    |-> Ratio(Exact2Count(results), N),
         exact_match_at_3    |-> Ratio(Exact3Count(results), N),
         precision           |-> Precision(sum_tp, sum_fp),
         recall              |-> Recall(sum_tp, sum_fn),
         f1_score            |-> F1Score(Precision(sum_tp, sum_fp), Recall(sum_tp, sum_fn)),
         average_confidence  |-> Ratio(total_confidence, N),
         total_predictions   |-> N,
         correct_predictions |-> correct_predictions_overall,
         results             |-> results,
         most_confused_tags  |-> MostConfused(confusion_counter),
         best_performing_categories  |-> BestPerforming(per_tag_total, per_tag_correct),
         worst_performing_categories |-> WorstPerforming(per_tag_total, per_tag_correct) ]

----------------------------------------------------------------------------
(* evaluate_all: actions *)

DataAfterLoad ==
    IF evaluation_data = <<>> THEN LoadEvaluationData(csv_rows) ELSE evaluation_data

\* steps 1 and 2: the data is there, the run's counters are fresh
StartRun ==
    /\ pc = "start"
    /\ DataAfterLoad # <<>>
    /\ evaluation_data' = DataAfterLoad
    /\ pc' = "loop"
    /\ results' = <<>>
    /\ total_confidence' = 0
    /\ confusion_counter' = <<>>
    /\ tp_counts' = [t \in Tags |-> 0]
    /\ fp_counts' = [t \in Tags |-> 0]
    /\ fn_counts' = [t \in Tags |-> 0]
    /\ per_tag_total' = <<>>
    /\ per_tag_correct' = <<>>
    /\ correct_predictions_overall' = 0
    /\ UNCHANGED <<second, event, csv_rows, report, predict_calls, http_status>>

\* RaiseNoData without the second test of evaluation_data
ProceedNoData ==
    /\ pc = "start"
    /\ DataAfterLoad = <<>>
    /\ evaluation_data' = DataAfterLoad
    /\ pc' = "loop"
    /\ UNCHANGED <<second, event, csv_rows, results, total_confidence, confusion_counter, tp_counts,
                   fp_counts, fn_counts, per_tag_total, per_tag_correct,
                   correct_predictions_overall, report, predict_calls, http_status>>

\* step 1: still no data after the load, RuntimeError; the route turns it
\* into an HTTPException with status 500
RaiseNoData ==
    /\ pc = "start"
    /\ DataAfterLoad = <<>>
    /\ evaluation_data' = DataAfterLoad
    /\ pc' = "raised"
    /\ http_status' = "500"
    /\ UNCHANGED <<second, event, csv_rows, results, total_confidence, confusion_counter, tp_counts,
                   fp_counts, fn_counts, per_tag_total, per_tag_correct,
                   correct_predictions_overall, report, predict_calls>>

CurrentItem == evaluation_data[Len(results) + 1]

\* await process_single_event(req) for an item, and whether it raised
Call(item, raised) == [arrangement |-> item.arrangement_nummer, raised |-> raised]

\* one iteration of the loop, process_single_event returned resp
ItemSuccess(resp) ==
    /\ pc = "loop"
    /\ Len(results) < Len(evaluation_data)
    /\ ~resp.raises
    /\ LET item == CurrentItem
           ground_truth_tags == GroundTruthTags(item.ground_truth_tags)
           predicted_tag1 == OrNone(resp.tag1)
           predicted_tag2 == OrNone(resp.tag2)
           predicted_tag3 == OrNone(resp.tag3)
           predicted_confidence == resp.confidence
           match_priority == MatchPriority(ground_truth_tags, predicted_tag1)
           is_correct == IsCorrect(match_priority)
       IN /\ correct_predictions_overall' =
                CorrectAfter(correct_predictions_overall, is_correct)
          /\ confusion_counter' =
                ConfusionAfter(confusion_counter, ground_truth_tags, predicted_tag1, is_correct)
          /\ per_tag_total' = PerTagTotalAfter(per_tag_total, ground_truth_tags)
          /\ tp_counts' = TpAfter(tp_counts, ground_truth_tags, predicted_tag1)
          /\ fp_counts' = FpAfter(fp_counts, ground_truth_tags, predicted_tag1)
          /\ fn_counts' = FnAfter(fn_counts, ground_truth_tags, predicted_tag1)
          /\ per_tag_correct' =
                PerTagCorrectAfter(per_tag_correct, predicted_tag1, is_correct)
          /\ total_confidence' = total_confidence + predicted_confidence
          /\ results' = Append(results,
                EvaluationResult(item, predicted_tag1, predicted_tag2, predicted_tag3,
                                 predicted_confidence, is_correct, match_priority, None))
    /\ predict_calls' = Append(predict_calls, Call(CurrentItem, FALSE))
    /\ UNCHANGED <<second, event, csv_rows, evaluation_data, pc, report, http_status>>

\* ItemFailure without the loop over the ground-truth tags
ItemFailureNoTotals ==
    /\ pc = "loop"
    /\ Len(results) < Len(evaluation_data)
    /\ results' = Append(results,
          EvaluationResult(CurrentItem, None, None, None, 0, FALSE, NoRank, "error"))
    /\ predict_calls' = Append(predict_calls, Call(CurrentItem, TRUE))
    /\ UNCHANGED <<second, event, csv_rows, evaluation_data, pc, confusion_counter, tp_counts, fp_counts,
                   fn_counts, per_tag_total, per_tag_correct, total_confidence,
                   correct_predictions_overall, report, http_status>>

\* ItemFailure without the except clause: the exception leaves evaluate_all
ItemFailureAborts ==
    /\ pc = "loop"
    /\ Len(results) < Len(evaluation_data)
    /\ pc' = "raised"
    /\ http_status' = "500"
    /\ predict_calls' = Append(predict_calls, Call(CurrentItem, TRUE))
    /\ UNCHANGED <<second, event, csv_rows, evaluation_data, results, confusion_counter, tp_counts,
                   fp_counts, fn_counts, per_tag_total, per_tag_correct, total_confidence,
                   correct_predictions_overall, report>>

\* ItemFailure counting the ground-truth tags as false negatives
ItemFailureCountsFn ==
    /\ pc = "loop"
    /\ Len(results) < Len(evaluation_data)
    /\ LET ground_truth_tags == GroundTruthTags(CurrentItem.ground_truth_tags)
       IN /\ per_tag_total' = PerTagTotalAfter(per_tag_total, ground_truth_tags)
          /\ fn_counts' = FnAfter(fn_counts, ground_truth_tags, None)
    /\ results' = Append(results,
          EvaluationResult(CurrentItem, None, None, None, 0, FALSE, NoRank, "error"))
    /\ predict_calls' = Append(predict_calls, Call(CurrentItem, TRUE))
    /\ UNCHANGED <<second, event, csv_rows, evaluation_data, pc, confusion_counter, tp_counts, fp_counts,
                   per_tag_correct, total_confidence, correct_predictions_overall,
                   report, http_status>>

\* one iteration of the loop, process_single_event raised
ItemFailure ==
    /\ pc = "loop"
    /\ Len(results) < Len(evaluation_data)
    /\ LET item == CurrentItem
           ground_truth_tags == GroundTruthTags(item.ground_truth_tags)
       IN /\ per_tag_total' = PerTagTotalAfter(per_tag_total, ground_truth_tags)
          /\ total_confidence' = total_confidence + 0
          /\ results' = Append(results,
                EvaluationResult(item, None, None, None, 0, FALSE, NoRank, "error"))
    /\ predict_calls' = Append(predict_calls, Call(CurrentItem, TRUE))
    /\ UNCHANGED <<second, event, csv_rows, evaluation_data, pc, confusion_counter, tp_counts, fp_counts,
                   fn_counts, per_tag_correct, correct_predictions_overall, report,
                   http_status>>

\* steps 4 to 7 after the loop; the route returns the response
Finalize ==
    /\ pc = "loop"
    /\ Len(results) = Len(evaluation_data)
    /\ report' = EvaluationResponse
    /\ pc' = "done"
    /\ http_status' = "200"
    /\ UNCHANGED <<second, event, csv_rows, evaluation_data, results, total_confidence, confusion_counter,
                   tp_counts, fp_counts, fn_counts, per_tag_total, per_tag_correct,
                   correct_predictions_overall, predict_calls>>

PredictSmall == \E resp \in SmallResponses \ {Raises} : ItemSuccess(resp)

PredictAny == \E resp \in AllResponses \ {Raises} : ItemSuccess(resp)

Next == StartRun \/ RaiseNoData \/ PredictSmall \/ ItemFailure \/ Finalize

NextItem == StartRun \/ RaiseNoData \/ PredictAny \/ ItemFailure \/ Finalize

Spec == Init /\ [][Next]_vars

SpecItem == InitItem /\ [][NextItem]_vars

\* the control of the loop: the next item's await of process_single_event
\* returns or raises, or the loop is over and the function returns
LoopStep ==
    /\ pc = "loop"
    /\ \/ /\ Len(results) < Len(evaluation_data)
          /\ pc' = "loop"
          /\ \E raised \in BOOLEAN :
                predict_calls' = Append(predict_calls, Call(CurrentItem, raised))
       \/ /\ Len(results) = Len(evaluation_data)
          /\ pc' = "done"
          /\ UNCHANGED predict_calls

\* Spec with the coroutine always resumed: every await of
\* process_single_event returns or raises and the event loop runs
\* evaluate_all on
FairSpec == Spec /\ WF_<<pc, predict_calls>>(LoopStep)

----------------------------------------------------------------------------
(* evaluate_all called a second time while the first call is running *)

\* the largest number of rows of the CSV file in SpecTwo
MaxRowsTwo == 2

\* rows of the CSV file in SpecTwo
FewRows == { <<"A", "", "B">>, <<"B", "", "">>, <<"", "D", "">> }

\* what process_single_event hands back in SpecTwo
FewResponses == { Raises, Triple("A", "B", "C", 90), Triple("C", None, None, 50) }

\* the locals of the first call
Locals ==
    [ results                     |-> results,
      total_confidence            |-> total_confidence,
      confusion_counter           |-> confusion_counter,
      tp_counts                   |-> tp_counts,
      fp_counts                   |-> fp_counts,
      fn_counts                   |-> fn_counts,
      per_tag_total               |-> per_tag_total,
      per_tag_correct             |-> per_tag_correct,
      correct_predictions_overall |-> correct_predictions_overall ]

\* ItemScored without match_priority = None at the head of the iteration: an
\* item without a match keeps the rank of the item before it
ItemScoredCarriesRank(run, item, resp) ==
    LET ground_truth_tags == GroundTruthTags(item.ground_truth_tags)
        carried == IF run.results = <<>> THEN NoRank
                   ELSE run.results[Len(run.results)].match_priority
    IN IF resp.raises
       THEN [run EXCEPT
               !.per_tag_total = PerTagTotalAfter(@, ground_truth_tags),
               !.results = Append(@,
                   EvaluationResult(item, None, None, None, 0, FALSE, carried, "error"))]
       ELSE LET predicted_tag1 == OrNone(resp.tag1)
                matched == MatchPriority(ground_truth_tags, predicted_tag1)
                is_correct == IsCorrect(matched)
            IN [run EXCEPT
                  !.correct_predictions_overall = CorrectAfter(@, is_correct),
                  !.confusion_counter =
                      ConfusionAfter(@, ground_truth_tags, predicted_tag1, is_correct),
                  !.per_tag_total = PerTagTotalAfter(@, ground_truth_tags),
                  !.tp_counts = TpAfter(@, ground_truth_tags, predicted_tag1),
                  !.fp_counts = FpAfter(@, ground_truth_tags, predicted_tag1),
                  !.fn_counts = FnAfter(@, ground_truth_tags, predicted_tag1),
                  !.per_tag_correct = PerTagCorrectAfter(@, predicted_tag1, is_correct),
                  !.total_confidence = @ + resp.confidence,
                  !.results = Append(@,
                      EvaluationResult(item, predicted_tag1, OrNone(resp.tag2),
                                       OrNone(resp.tag3), resp.confidence, is_correct,
                                       IF is_correct THEN matched ELSE carried, None))]

\* one iteration of the loop on the locals run: process_single_event
\* returned resp, or raised
ItemScored(run, item, resp) ==
    LET ground_truth_tags == GroundTruthTags(item.ground_truth_tags)
    IN IF resp.raises
       THEN [run EXCEPT
               !.per_tag_total = PerTagTotalAfter(@, ground_truth_tags),
               !.total_confidence = @ + 0,
               !.results = Append(@,
                   EvaluationResult(item, None, None, None, 0, FALSE, NoRank, "error"))]
       ELSE LET predicted_tag1 == OrNone(resp.tag1)
                predicted_tag2 == OrNone(resp.tag2)
                predicted_tag3 == OrNone(resp.tag3)
                match_priority == MatchPriority(ground_truth_tags, predicted_tag1)
                is_correct == IsCorrect(match_priority)
            IN [run EXCEPT
                  !.correct_predictions_overall = CorrectAfter(@, is_correct),
                  !.confusion_counter =
                      ConfusionAfter(@, ground_truth_tags, predicted_tag1, is_correct),
                  !.per_tag_total = PerTagTotalAfter(@, ground_truth_tags),
                  !.tp_counts = TpAfter(@, ground_truth_tags, predicted_tag1),
                  !.fp_counts = FpAfter(@, ground_truth_tags, predicted_tag1),
                  !.fn_counts = FnAfter(@, ground_truth_tags, predicted_tag1),
                  !.per_tag_correct = PerTagCorrectAfter(@, predicted_tag1, is_correct),
                  !.total_confidence = @ + resp.confidence,
                  !.results = Append(@,
                      EvaluationResult(item, predicted_tag1, predicted_tag2,
                                       predicted_tag3, resp.confidence, is_correct,
                                       match_priority, None))]

\* steps 4 to 7 on the locals run
ReportOf(run) ==
    LET N == Len(run.results)
        sum_tp == MapSum(run.tp_counts, DOMAIN run.tp_counts)
        sum_fp == MapSum(run.fp_counts, DOMAIN run.fp_counts)
        sum_fn == MapSum(run.fn_counts, DOMAIN run.fn_counts)
    IN [ accuracy_at_1       |-> Ratio(CorrectAt1(run.results), N),
         accuracy_at_2       |-> Ratio(CorrectAt2(run.results), N),
         accuracy_at_3       |-> Ratio(CorrectAt3(run.results), N),
         weighted_accuracy   |-> Ratio(TotalWeight6(run.results), 6 * N),
         exact_match_at_2    |-> Ratio(Exact2Count(run.results), N),
         exact_match_at_3    |-> Ratio(Exact3Count(run.results), N),
         precision           |-> Precision(sum_tp, sum_fp),
         recall              |-> Recall(sum_tp, sum_fn),
         f1_score            |-> F1Score(Precision(sum_tp, sum_fp), Recall(sum_tp, sum_fn)),
         average_confidence  |-> Ratio(run.total_confidence, N),
         total_predictions   |-> N,
         correct_predictions |-> run.correct_predictions_overall,
         results             |-> run.results,
         most_confused_tags  |-> MostConfused(run.confusion_counter),
         best_performing_categories  |->
             BestPerforming(run.per_tag_total, run.per_tag_correct),
         worst_performing_categories |->
             WorstPerforming(run.per_tag_total, run.per_tag_correct) ]

\* SecondStart with the counters of the first call instead of fresh ones
SecondStartOnShared ==
    /\ second.pc = "absent"
    /\ DataAfterLoad # <<>>
    /\ evaluation_data' = DataAfterLoad
    /\ second' = [pc |-> "loop", items |-> DataAfterLoad,
                  run |-> [Locals EXCEPT !.results = <<>>], report |-> None]
    /\ UNCHANGED <<event, csv_rows, pc, results, total_confidence, confusion_counter,
                   tp_counts, fp_counts, fn_counts, per_tag_total, per_tag_correct,
                   correct_predictions_overall, report, predict_calls, http_status>>

\* the second call, steps 1 and 2: the data is there (loaded by this call or
\* by an earlier one), the call has its own fresh locals
SecondStart ==
    /\ second.pc = "absent"
    /\ DataAfterLoad # <<>>
    /\ evaluation_data' = DataAfterLoad
    /\ second' = [pc |-> "loop", items |-> DataAfterLoad, run |-> FreshCounters,
                  report |-> None]
    /\ UNCHANGED <<event, csv_rows, pc, results, total_confidence, confusion_counter,
                   tp_counts, fp_counts, fn_counts, per_tag_total, per_tag_correct,
                   correct_predictions_overall, report, predict_calls, http_status>>

\* the second call, step 1: still no data after the load
SecondRaiseNoData ==
    /\ second.pc = "absent"
    /\ DataAfterLoad = <<>>
    /\ evaluation_data' = DataAfterLoad
    /\ second' = [second EXCEPT !.pc = "raised"]
    /\ UNCHANGED <<event, csv_rows, pc, results, total_confidence, confusion_counter,
                   tp_counts, fp_counts, fn_counts, per_tag_total, per_tag_correct,
                   correct_predictions_overall, report, predict_calls, http_status>>

\* SecondItem scoring on the accumulators of the first call
SecondItemOnShared(resp) ==
    /\ second.pc = "loop"
    /\ Len(second.run.results) < Len(second.items)
    /\ second' = [second EXCEPT !.run =
          ItemScored([Locals EXCEPT !.results = second.run.results],
                     second.items[Len(second.run.results) + 1], resp)]
    /\ UNCHANGED <<event, csv_rows, evaluation_data, pc, results, total_confidence,
                   confusion_counter, tp_counts, fp_counts, fn_counts, per_tag_total,
                   per_tag_correct, correct_predictions_overall, report, predict_calls,
                   http_status>>

\* the second call, one iteration of its loop
SecondItem(resp) ==
    /\ second.pc = "loop"
    /\ Len(second.run.results) < Len(second.items)
    /\ second' = [second EXCEPT !.run =
          ItemScored(@, second.items[Len(second.run.results) + 1], resp)]
    /\ UNCHANGED <<event, csv_rows, evaluation_data, pc, results, total_confidence,
                   confusion_counter, tp_counts, fp_counts, fn_counts, per_tag_total,
                   per_tag_correct, correct_predictions_overall, report, predict_calls,
                   http_status>>

\* the second call, steps 4 to 7
SecondFinalize ==
    /\ second.pc = "loop"
    /\ Len(second.run.results) = Len(second.items)
    /\ second' = [second EXCEPT !.pc = "done", !.report = ReportOf(second.run)]
    /\ UNCHANGED <<event, csv_rows, evaluation_data, pc, results, total_confidence,
                   confusion_counter, tp_counts, fp_counts, fn_counts, per_tag_total,
                   per_tag_correct, correct_predictions_overall, report, predict_calls,
                   http_status>>

PredictFew == \E resp \in FewResponses \ {Raises} : ItemSuccess(resp)

SecondPredict == \E resp \in FewResponses : SecondItem(resp)

InitTwo ==
    /\ csv_rows \in UNION { [1..n -> FewRows] \cup [1..n -> {EmptyRow}] :
                              n \in 0..MaxRowsTwo }
    /\ InitRun

NextTwo ==
    \/ StartRun \/ RaiseNoData \/ PredictFew \/ ItemFailure \/ Finalize
    \/ SecondStart \/ SecondRaiseNoData \/ SecondPredict \/ SecondFinalize

\* two calls of evaluate_all on one event loop, interleaved at the awaits
SpecTwo == InitTwo /\ [][NextTwo]_vars

\* the largest number of rows of the CSV file in SpecTags
MaxItemsTags == 3

\* what process_single_event hands back in SpecTags: no blank tag2 or tag3
TagResponses == SmallResponses \ { Triple("A", "B", "", 90) }

PredictTags == \E resp \in TagResponses \ {Raises} : ItemSuccess(resp)

InitTags ==
    /\ csv_rows \in UNION { [1..n -> SmallRows] \cup [1..n -> {EmptyRow}] :
                              n \in 0..MaxItemsTags }
    /\ InitRun

NextTags == StartRun \/ RaiseNoData \/ PredictTags \/ ItemFailure \/ Finalize

\* single runs over the small rows and the responses without blank tags
SpecTags == InitTags /\ [][NextTags]_vars

\* the largest number of rows of the CSV file in SpecOrder
MaxRowsOrder == 3

InitOrder ==
    /\ csv_rows \in UNION { [1..n -> FewRows] : n \in 0..MaxRowsOrder }
    /\ InitRun

NextOrder == StartRun \/ RaiseNoData \/ PredictFew \/ ItemFailure \/ Finalize

\* single runs over the few rows and responses
SpecOrder == InitOrder /\ [][NextOrder]_vars

\* a run by itself: the loop over the first Len(outcomes) items of data
RECURSIVE AloneFrom(_, _, _, _)
AloneFrom(run, data, outcomes, k) ==
    IF k > Len(outcomes) THEN run
    ELSE AloneFrom(ItemScored(run, data[k], outcomes[k]), data, outcomes, k + 1)

Alone(data, outcomes) == AloneFrom(FreshCounters, data, outcomes, 1)

----------------------------------------------------------------------------
(* process_single_event *)
(* A text is the sequence of its words; the request carries the title and   *)
(* one description field, the other text fields are absent.                 *)

\* InputValidator.sensitive_keywords
sensitive_keywords ==
    { "klassificeret", "hemmeligt", "fortroligt", "privat", "personfolsomme",
      "gdpr", "databeskyttelse" }

\* the services in the order the pipeline awaits them
Pipeline ==
    << "validate_and_clean", "check_sensitive_content", "generate_tagging_prompt",
       "get_tags", "parse_tag_response", "evaluate_confidence", "needs_review" >>

EventTitles ==
    { <<"ab">>, <<"Jazz">>, <<"Jazz", "&amp;", "blues">>, <<"Privat", "fest">> }

EventTexts == { None, <<"GDPR", "&amp;", "jura">>, <<"<b>", "koncert">> }

EventRequests == [arrangement_titel : EventTitles, nc_beskrivelse : EventTexts]

\* _clean_text: tags are removed, entities replaced
RECURSIVE CleanText(_)
CleanText(text) ==
    IF text = <<>> THEN <<>>
    ELSE (CASE text[1] = "<b>"   -> <<>>
            [] text[1] = "&amp;" -> <<"&">>
            [] OTHER             -> <<text[1]>>) \o CleanText(Tail(text))

\* len(arrangement_titel.strip())
RECURSIVE TextLen(_)
TextLen(text) ==
    IF text = <<>> THEN 0
    ELSE Len(text[1]) + (IF Len(text) > 1 THEN 1 ELSE 0) + TextLen(Tail(text))

\* validate_and_clean raises ValueError on a title of fewer than 3 characters
ValidateRaises(request) == TextLen(request.arrangement_titel) < 3

ValidateAndClean(request) ==
    [ arrangement_titel |-> CleanText(request.arrangement_titel),
      nc_beskrivelse    |-> IF request.nc_beskrivelse = None THEN None
                            ELSE CleanText(request.nc_beskrivelse) ]

\* str.lower on the words of the requests
Lower(w) ==
    CASE w = "GDPR"   -> "gdpr"
      [] w = "Privat" -> "privat"
      [] w = "Jazz"   -> "jazz"
      [] OTHER        -> w

\* check_sensitive_content: a keyword occurs in the lowered text of the fields
CheckSensitiveContent(arrangement) ==
    LET text_to_check ==
            arrangement.arrangement_titel \o
            (IF arrangement.nc_beskrivelse = None THEN <<>>
             ELSE arrangement.nc_beskrivelse)
    IN [ contains_sensitive_content |->
            \E j \in 1..Len(text_to_check) :
                Lower(text_to_check[j]) \in sensitive_keywords ]

ErrorResponse(message) ==
    [status |-> "error", error_message |-> message, needs_human_review |-> TRUE]

SuccessResponse(needs_review) ==
    [status |-> "success", error_message |-> None, needs_human_review |-> needs_review]

\* the variables of evaluate_all
RunVars ==
    <<csv_rows, evaluation_data, pc, results, total_confidence, confusion_counter,
      tp_counts, fp_counts, fn_counts, per_tag_total, per_tag_correct,
      correct_predictions_overall, report, predict_calls, http_status, second>>

\* the service is awaited
Awaited(ev, service) == [ev EXCEPT !.calls = Append(@, service)]

\* except Exception as e: the error response is returned
Caught(ev, message) ==
    [ev EXCEPT !.pc = "returned", !.response = ErrorResponse(message)]

\* the function is entered; the services are initialized first when
\* input_validator is None
BeginEvent ==
    /\ event.pc = "absent"
    /\ \E request \in EventRequests, uninitialized \in BOOLEAN :
          event' = [NoEvent EXCEPT !.pc = "validate", !.request = request,
                                   !.forced_init = uninitialized]
    /\ UNCHANGED RunVars

\* step 1
Validate ==
    /\ event.pc = "validate"
    /\ event' =
          IF ValidateRaises(event.request)
          THEN Caught(Awaited(event, "validate_and_clean"), "ValueError")
          ELSE [Awaited(event, "validate_and_clean") EXCEPT
                  !.pc = "sensitive", !.validated = ValidateAndClean(event.request)]
    /\ UNCHANGED RunVars

\* CheckSensitive without the return of the error response
CheckSensitiveGoesOn ==
    /\ event.pc = "sensitive"
    /\ event' = [Awaited(event, "check_sensitive_content") EXCEPT
                   !.pc = "prompt",
                   !.sensitivity_check = CheckSensitiveContent(event.validated)]
    /\ UNCHANGED RunVars

\* step 2
CheckSensitive ==
    /\ event.pc = "sensitive"
    /\ LET sensitivity_check == CheckSensitiveContent(event.validated)
           checked == [Awaited(event, "check_sensitive_content") EXCEPT
                         !.sensitivity_check = sensitivity_check]
       IN event' =
             IF sensitivity_check.contains_sensitive_content
             THEN [checked EXCEPT !.pc = "returned",
                                  !.response = ErrorResponse("sensitive content")]
             ELSE [checked EXCEPT !.pc = "prompt"]
    /\ UNCHANGED RunVars

\* step 3: reading request.custom_prompt raises before the call, or the
\* prompt generator is awaited and returns or raises
GeneratePrompt ==
    /\ event.pc = "prompt"
    /\ \/ event' = Caught(event, "AttributeError")
       \/ event' = Caught(Awaited(event, "generate_tagging_prompt"), "prompt error")
       \/ event' = [Awaited(event, "generate_tagging_prompt") EXCEPT !.pc = "llm"]
    /\ UNCHANGED RunVars

\* step 4
GetTags ==
    /\ event.pc = "llm"
    /\ \/ event' = Caught(Awaited(event, "get_tags"), "llm error")
       \/ event' = [Awaited(event, "get_tags") EXCEPT !.pc = "parse"]
    /\ UNCHANGED RunVars

\* step 5: the parser raises, or returns an invalid or a valid result
ParseTagResponse ==
    /\ event.pc = "parse"
    /\ \/ event' = Caught(Awaited(event, "parse_tag_response"), "parse error")
       \/ event' = [Awaited(event, "parse_tag_response") EXCEPT
                      !.pc = "returned", !.response = ErrorResponse("invalid response")]
       \/ event' = [Awaited(event, "parse_tag_response") EXCEPT !.pc = "confidence"]
    /\ UNCHANGED RunVars

\* step 6
EvaluateConfidence ==
    /\ event.pc = "confidence"
    /\ \/ event' = Caught(Awaited(event, "evaluate_confidence"), "confidence error")
       \/ event' = [Awaited(event, "evaluate_confidence") EXCEPT !.pc = "review"]
    /\ UNCHANGED RunVars

\* step 7
NeedsReview ==
    /\ event.pc = "review"
    /\ \/ event' = Caught(Awaited(event, "needs_review"), "review error")
       \/ \E needs_review \in BOOLEAN :
             event' = [Awaited(event, "needs_review") EXCEPT
                         !.pc = "build", !.needs_review = needs_review]
    /\ UNCHANGED RunVars

\* step 8: the tag results and the response are built (a confidence out of
\* range raises), the response is returned
BuildResponse ==
    /\ event.pc = "build"
    /\ \/ event' = Caught(event, "ValidationError")
       \/ event' = [event EXCEPT !.pc = "returned",
                                 !.response = SuccessResponse(event.needs_review)]
    /\ UNCHANGED RunVars

InitEvent ==
    /\ csv_rows = <<>>
    /\ InitRun

NextEvent ==
    \/ BeginEvent \/ Validate \/ CheckSensitive \/ GeneratePrompt \/ GetTags
    \/ ParseTagResponse \/ EvaluateConfidence \/ NeedsReview \/ BuildResponse

\* one call of process_single_event
SpecEvent == InitEvent /\ [][NextEvent]_vars

----------------------------------------------------------------------------
(* Properties *)

\* the ground-truth tag an item carries at priority k, None when it has none
PriorityTag(gt_list, k) ==
    IF \E j \in 1..Len(gt_list) : gt_list[j].priority = k
    THEN gt_list[CHOOSE j \in 1..Len(gt_list) : gt_list[j].priority = k].tag
    ELSE None

\* the smallest priority whose ground-truth tag equals tag1, NoRank when none
RankByPriority(gt_list, tag1) ==
    LET ks == { k \in 1..3 : tag1 # None /\ PriorityTag(gt_list, k) = tag1 }
    IN IF ks = {} THEN NoRank ELSE CHOOSE k \in ks : \A other \in ks : k <= other

\* the exact_at_2 condition over priorities
ExactByPriority2(gt_list, tag1, tag2) ==
    /\ tag1 # None
    /\ tag1 = PriorityTag(gt_list, 1)
    /\ \/ (PriorityTag(gt_list, 2) = None /\ tag2 = None)
       \/ (PriorityTag(gt_list, 2) # None /\ tag2 = PriorityTag(gt_list, 2))

\* the exact_at_3 condition over priorities
ExactByPriority3(gt_list, tag1, tag2, tag3) ==
    /\ ExactByPriority2(gt_list, tag1, tag2)
    /\ \/ (PriorityTag(gt_list, 3) = None /\ tag3 = None)
       \/ (PriorityTag(gt_list, 3) # None /\ tag3 = PriorityTag(gt_list, 3))

Scored == 1..Len(results)

Succeeded(i) == results[i].error_message = None

WithRank(ranks) == { i \in Scored : results[i].match_priority \in ranks }

Done == pc = "done"

\* C1: for every item whose prediction succeeds, match_priority is the priority
\* of the first ground-truth entry (by ascending priority) whose tag equals
\* predicted_tag1, and is absent when no entry matches or tag1 is absent; this
\* is claimed for non-contiguous priorities too.
C1_MatchRankIsPriority ==
    \A i \in Scored :
        Succeeded(i) =>
            results[i].match_priority =
                RankByPriority(evaluation_data[i].ground_truth_tags,
                               results[i].predicted_tag1)

\* C2: for every outcome, in the run and in the report, match_priority is
\* absent or one of 1, 2, 3, and when present the tag at that 1-based position
\* of the outcome's ground-truth list equals predicted_tag1.
C2_RankIsPosition ==
    /\ \A i \in Scored :
          LET r == results[i]
          IN /\ r.match_priority \in {NoRank, 1, 2, 3}
             /\ r.match_priority # NoRank =>
                   /\ r.match_priority <= Len(r.ground_truth_tags)
                   /\ r.ground_truth_tags[r.match_priority] = r.predicted_tag1
                   /\ SortedGt(evaluation_data[i].ground_truth_tags)[r.match_priority].tag
                        = r.predicted_tag1
    /\ Done => report.results = results

C2_Witness ==
    \E i \in Scored :
        /\ results[i].match_priority = 2
        /\ Len(results[i].ground_truth_tags) = 2
        /\ PriorityTag(evaluation_data[i].ground_truth_tags, 2) = None

\* C3: for every outcome is_correct is true exactly when match_priority is
\* present, and the count of correct items, as accumulated and as reported in
\* correct_predictions, is the number of outcomes with a match_priority.
C3_CorrectIffRank ==
    /\ \A i \in Scored : results[i].is_correct <=> results[i].match_priority # NoRank
    /\ correct_predictions_overall = Cardinality(WithRank({1, 2, 3}))
    /\ Done => report.correct_predictions = Cardinality(WithRank({1, 2, 3}))

C3_Witness ==
    /\ Done
    /\ report.correct_predictions = 2
    /\ \E i \in Scored : ~results[i].is_correct

\* C4: for every item, the EXACT@2 condition holds exactly when tag1 equals the
\* priority-1 ground-truth tag and either there is no priority-2 tag and tag2
\* is absent, or there is one and tag2 equals it; this is claimed for lists
\* with a tag at priority 3 and none at priority 2 too.
C4_Exact2ByPriority ==
    \A i \in Scored :
        ExactAt2(results[i]) <=>
            ExactByPriority2(evaluation_data[i].ground_truth_tags,
                             results[i].predicted_tag1, results[i].predicted_tag2)

\* C5: for every item, the EXACT@3 condition holds exactly when the exact_at_2
\* condition holds and either there is no priority-3 tag and tag3 is absent, or
\* there is one and tag3 equals it.
C5_Exact3ByPriority ==
    \A i \in Scored :
        ExactAt3(results[i]) <=>
            ExactByPriority3(evaluation_data[i].ground_truth_tags,
                             results[i].predicted_tag1, results[i].predicted_tag2,
                             results[i].predicted_tag3)

\* C6: for every item EXACT@3 implies EXACT@2, and in every report
\* exact_match_at_3 is at most exact_match_at_2.
C6_Exact3ImpliesExact2 ==
    /\ \A i \in Scored : ExactAt3(results[i]) => ExactAt2(results[i])
    /\ Done => /\ report.exact_match_at_3[1] <= report.exact_match_at_2[1]
               /\ RatioLeq(report.exact_match_at_3, report.exact_match_at_2)

C6_Witness ==
    /\ Done
    /\ report.exact_match_at_3[1] = 1
    /\ report.exact_match_at_2[1] = 2

\* C7: in every report 0 <= accuracy_at_1 <= accuracy_at_2 <= accuracy_at_3 <= 1,
\* and the numerators satisfy 0 <= correct_at_1 <= correct_at_2 <= correct_at_3 <= N.
C7_AccuracyMonotone ==
    Done =>
        /\ RatioLeq(<<0, 1>>, report.accuracy_at_1)
        /\ RatioLeq(report.accuracy_at_1, report.accuracy_at_2)
        /\ RatioLeq(report.accuracy_at_2, report.accuracy_at_3)
        /\ RatioLeq(report.accuracy_at_3, <<1, 1>>)
        /\ 0 <= report.accuracy_at_1[1]
        /\ report.accuracy_at_1[1] <= report.accuracy_at_2[1]
        /\ report.accuracy_at_2[1] <= report.accuracy_at_3[1]
        /\ report.accuracy_at_3[1] <= report.total_predictions

C7_Witness ==
    /\ Done
    /\ RatioLess(<<0, 1>>, report.accuracy_at_1)
    /\ RatioLess(report.accuracy_at_1, report.accuracy_at_2)
    /\ RatioLess(report.accuracy_at_2, report.accuracy_at_3)

\* C8: in every report accuracy_at_k (k = 1, 2, 3) is the number of outcomes
\* whose match_priority is present and at most k, divided by N.
C8_AccuracyAtK ==
    Done =>
        LET N == Len(results)
            UpTo(k) == Cardinality({ i \in Scored : /\ results[i].match_priority # NoRank
                                                    /\ results[i].match_priority <= k })
        IN /\ report.accuracy_at_1 = <<UpTo(1), N>>
           /\ report.accuracy_at_2 = <<UpTo(2), N>>
           /\ report.accuracy_at_3 = <<UpTo(3), N>>

C8_Witness ==
    /\ Done
    /\ \E i, j, k \in Scored :
          /\ results[i].match_priority = 2
          /\ results[j].match_priority = 3
          /\ results[k].match_priority = NoRank
    /\ report.accuracy_at_1[1] = 0
    /\ report.accuracy_at_2[1] = 1
    /\ report.accuracy_at_3[1] = 2

\* C9: in every report weighted_accuracy is the sum of 1/match_priority over
\* the outcomes with a match_priority, divided by N:
\* 6 * N * weighted_accuracy = 6 * #rank1 + 3 * #rank2 + 2 * #rank3.
C9_WeightedAccuracy ==
    Done =>
        report.weighted_accuracy =
            << 6 * Cardinality(WithRank({1})) + 3 * Cardinality(WithRank({2}))
                 + 2 * Cardinality(WithRank({3})),
               6 * Len(results) >>

C9_Witness ==
    /\ Done
    /\ WithRank({1}) # {}
    /\ WithRank({2}) # {}
    /\ WithRank({3}) # {}

\* the items that are to record a confusion pair, and the key of each
Confused == { i \in Scored : results[i].predicted_tag1 # None /\ ~results[i].is_correct }

FirstTruth(i) == SortedGt(evaluation_data[i].ground_truth_tags)[1].tag

PairOf(i) == FirstTruth(i) \o " -> " \o results[i].predicted_tag1

\* C10: a confusion pair is recorded for an item exactly when its
\* predicted_tag1 is present and is_correct is false; its key is
\* "<first ground-truth tag by priority> -> <tag1>"; after any sequence of
\* items every key counts the items with that pair and the counts sum to the
\* number of such items.
C10_ConfusionCounts ==
    /\ DictKeys(confusion_counter) = { PairOf(i) : i \in Confused }
    /\ \A key \in DictKeys(confusion_counter) :
          DictGet(confusion_counter, key) =
              Cardinality({ i \in Confused : PairOf(i) = key })
    /\ Len(confusion_counter) = Cardinality(DictKeys(confusion_counter))
    /\ DictSum(confusion_counter) = Cardinality(Confused)

C10_Witness ==
    /\ Len(results) = 3
    /\ Cardinality(Confused) = 2
    /\ Len(confusion_counter) = 2
    /\ \E i \in Scored : Succeeded(i) /\ results[i].predicted_tag1 = None

\* the ground-truth tags of item i, and the counters' sums
TruthOf(i) ==
    { evaluation_data[i].ground_truth_tags[j].tag :
        j \in 1..Len(evaluation_data[i].ground_truth_tags) }

SumTp == MapSum(tp_counts, Tags)

SumFp == MapSum(fp_counts, Tags)

SumFn == MapSum(fn_counts, Tags)

\* C11: for every successfully predicted item and every tag t of the union of
\* its ground-truth tags and {tag1}, t adds exactly one count: a true positive
\* when t is tag1 and a ground-truth tag, a false positive when t is tag1 and
\* no ground-truth tag, a false negative when t is a ground-truth tag other
\* than tag1; nothing else (tag2, tag3, a failed item) adds to TP, FP or FN.
C11_TpFpFnPerTag ==
    /\ \A t \in Tags :
          /\ tp_counts[t] = Cardinality({ i \in Scored :
                  Succeeded(i) /\ results[i].predicted_tag1 = t /\ t \in TruthOf(i) })
          /\ fp_counts[t] = Cardinality({ i \in Scored :
                  Succeeded(i) /\ results[i].predicted_tag1 = t /\ t \notin TruthOf(i) })
          /\ fn_counts[t] = Cardinality({ i \in Scored :
                  Succeeded(i) /\ results[i].predicted_tag1 # t /\ t \in TruthOf(i) })
    /\ (Len(results) = 1 /\ Succeeded(1)) =>
          \A t \in Tags :
              tp_counts[t] + fp_counts[t] + fn_counts[t] =
                  IF t \in TruthOf(1) \cup ({results[1].predicted_tag1} \ {None})
                  THEN 1 ELSE 0

C11_Witness ==
    /\ Len(results) = 1
    /\ Succeeded(1)
    /\ Cardinality(TruthOf(1)) = 2
    /\ results[1].predicted_tag1 \in Tags \ TruthOf(1)
    /\ results[1].predicted_tag2 \in TruthOf(1)
    /\ SumFp = 1
    /\ SumFn = 2
    /\ SumTp = 0

\* C12: in every report precision = sumTP / (sumTP + sumFP) when the
\* denominator is positive and 0 otherwise, recall = sumTP / (sumTP + sumFN)
\* likewise, f1 = 2 * precision * recall / (precision + recall) when
\* precision + recall > 0 and 0 otherwise; all three lie in [0, 1] and no
\* denominator is zero.
C12_PrecisionRecallF1 ==
    Done =>
        LET p == report.precision
            r == report.recall
            f == report.f1_score
            sum == p[1] * r[2] + r[1] * p[2]
        IN /\ p = IF SumTp + SumFp > 0 THEN <<SumTp, SumTp + SumFp>> ELSE <<0, 1>>
           /\ r = IF SumTp + SumFn > 0 THEN <<SumTp, SumTp + SumFn>> ELSE <<0, 1>>
           /\ IF sum > 0 THEN f[1] * sum = 2 * p[1] * r[1] * f[2] ELSE f = <<0, 1>>
           /\ \A x \in {p, r, f} : x[2] > 0 /\ 0 <= x[1] /\ x[1] <= x[2]

C12_Witness ==
    /\ Done
    /\ SumTp > 0
    /\ SumFp > 0
    /\ SumFn > 0
    /\ RatioLess(report.f1_score, <<1, 1>>)
    /\ RatioLess(<<0, 1>>, report.f1_score)

\* a step in which process_single_event raised, its outcome and its item
FailureStep ==
    /\ Len(predict_calls') = Len(predict_calls) + 1
    /\ predict_calls'[Len(predict_calls')].raised

FailedOutcome == results'[Len(results')]

FailedTruth == evaluation_data[Len(results')].ground_truth_tags

TagCountIn(gt_list, t) == Cardinality({ j \in 1..Len(gt_list) : gt_list[j].tag = t })

FailedItemCounted ==
    \A t \in Tags :
        DictGet(per_tag_total', t) = DictGet(per_tag_total, t) + TagCountIn(FailedTruth, t)

\* C13: when the predictor fails for an item, the item's outcome has its error
\* set, is_correct false, no match_priority and confidence 0; every one of its
\* ground-truth tags is counted once in per_tag_total and per_tag_correct is
\* left as it was.
C13_FailedOutcome ==
    [][FailureStep =>
          /\ Len(results') = Len(results) + 1
          /\ FailedOutcome.error_message # None
          /\ FailedOutcome.is_correct = FALSE
          /\ FailedOutcome.match_priority = NoRank
          /\ FailedOutcome.predicted_confidence = 0
          /\ total_confidence' = total_confidence
          /\ FailedItemCounted
          /\ per_tag_correct' = per_tag_correct]_vars

C13_Witness ==
    /\ \E i \in Scored : ~Succeeded(i) /\ Cardinality(TruthOf(i)) = 3
    /\ DictSum(per_tag_correct) > 0
    /\ DictSum(per_tag_total) > 3

\* C14: processing an item whose prediction fails leaves tp_counts, fp_counts,
\* fn_counts, the confusion map and the count of correct items unchanged.
C14_FailureFrame ==
    [][FailureStep =>
          /\ tp_counts' = tp_counts
          /\ fp_counts' = fp_counts
          /\ fn_counts' = fn_counts
          /\ confusion_counter' = confusion_counter
          /\ correct_predictions_overall' = correct_predictions_overall]_vars

C14_Witness ==
    /\ Len(results) >= 2
    /\ ~Succeeded(Len(results))
    /\ SumTp > 0
    /\ SumFn > 0
    /\ confusion_counter # <<>>

\* C15 as claimed: when the predictor fails for an item, its ground-truth tags
\* count toward the per-tag totals, add no true positive, and make the recall
\* denominator sumTP + sumFN larger than it is without the item.
C15_FailureGrowsRecallDenominator ==
    [][FailureStep =>
          /\ FailedItemCounted
          /\ SumTp' = SumTp
          /\ SumTp' + SumFn' > SumTp + SumFn]_vars

\* C15: when the predictor fails for an item, its ground-truth tags count
\* toward the per-tag totals and add no true positive; the recall denominator
\* sumTP + sumFN is the same with and without the failed item.
C15_FailureKeepsRecallDenominator ==
    [][FailureStep =>
          /\ FailedItemCounted
          /\ DictSum(per_tag_total') = DictSum(per_tag_total) + Len(FailedTruth)
          /\ SumTp' = SumTp
          /\ SumTp' + SumFn' = SumTp + SumFn]_vars

C15_Witness ==
    /\ \E i \in Scored : ~Succeeded(i)
    /\ SumTp + SumFn > 0
    /\ DictSum(per_tag_total) > SumTp + SumFn

\* what holds of a run at every moment: it is aborted only on an empty
\* dataset, process_single_event has been awaited once per scored item in the
\* order of the dataset, and the report holds one outcome per item in that order
OneOutcomePerItem ==
    /\ pc = "raised" => evaluation_data = <<>>
    /\ Len(results) <= Len(evaluation_data)
    /\ Len(predict_calls) = Len(results)
    /\ \A i \in Scored :
          /\ predict_calls[i].arrangement = evaluation_data[i].arrangement_nummer
          /\ predict_calls[i].raised <=> ~Succeeded(i)
          /\ results[i].arrangement_id = evaluation_data[i].arrangement_nummer
    /\ Done =>
          /\ http_status = "200"
          /\ Len(report.results) = Len(evaluation_data)
          /\ \A i \in 1..Len(evaluation_data) :
                report.results[i].arrangement_id = evaluation_data[i].arrangement_nummer

C17_EmptyDatasetAborts ==
    (pc # "start" /\ LoadEvaluationData(csv_rows) = <<>>) =>
          /\ pc = "raised"
          /\ http_status = "500"
          /\ predict_calls = <<>>
          /\ results = <<>>
          /\ report = None

C17_Witness ==
    /\ pc = "raised"
    /\ Len(csv_rows) = 2
    /\ http_status = "500"

\* the ratio metrics of a report
ReportRatios ==
    { report.accuracy_at_1, report.accuracy_at_2, report.accuracy_at_3,
      report.weighted_accuracy, report.exact_match_at_2, report.exact_match_at_3,
      report.average_confidence, report.precision, report.recall, report.f1_score }

\* C18 as claimed: a run over N = 0 items does not raise, and every ratio
\* metric it reports is 0.0.
C18_NoItemsReportZeros ==
    (pc # "start" /\ evaluation_data = <<>>) =>
          /\ pc # "raised"
          /\ Done => \A x \in ReportRatios : x = <<0, 1>>

\* C18: a run over N = 0 items never reaches the metrics, it raises and has
\* no report; every report has N >= 1, its accuracy, exact-match and
\* average-confidence ratios divide by N and the weighted accuracy by the
\* N items' full weight, and precision, recall and f1 are 0.0 when their own
\* denominator is 0; no ratio has a zero denominator.
C18_RatiosDefined ==
    /\ (pc # "start" /\ evaluation_data = <<>>) => (pc = "raised" /\ report = None)
    /\ Done =>
          LET N == Len(report.results)
          IN /\ N >= 1
             /\ report.total_predictions = N
             /\ \A x \in { report.accuracy_at_1, report.accuracy_at_2,
                            report.accuracy_at_3, report.exact_match_at_2,
                            report.exact_match_at_3, report.average_confidence } :
                   x[2] = N
             /\ report.weighted_accuracy[2] = 6 * N
             /\ SumTp + SumFp = 0 => report.precision = <<0, 1>>
             /\ SumTp + SumFn = 0 => report.recall = <<0, 1>>
             /\ (report.precision[1] = 0 /\ report.recall[1] = 0) =>
                   report.f1_score = <<0, 1>>
             /\ \A x \in ReportRatios : x[2] > 0

C18_Witness ==
    /\ Done
    /\ Len(report.results) = 2
    /\ SumTp + SumFp = 0
    /\ SumTp + SumFn = 0
    /\ report.f1_score = <<0, 1>>
    /\ report.accuracy_at_1 = <<0, 2>>

\* the first item that recorded the confusion pair key
FirstRecorded(key) ==
    CHOOSE i \in Confused :
        /\ PairOf(i) = key
        /\ \A j \in Confused : PairOf(j) = key => i <= j

\* C19: the confusion map of the report holds the recorded pairs with their
\* counts, in descending order of count, and pairs of equal count in the
\* order in which they were first recorded.
C19_ConfusionOrder ==
    Done =>
        LET m == report.most_confused_tags
        IN /\ Len(m) = Len(confusion_counter)
           /\ { m[j] : j \in 1..Len(m) } =
                 { confusion_counter[j] : j \in 1..Len(confusion_counter) }
           /\ \A i, j \in 1..Len(m) :
                 i < j =>
                    /\ m[i][2] >= m[j][2]
                    /\ m[i][2] = m[j][2] =>
                          FirstRecorded(m[i][1]) < FirstRecorded(m[j][1])

C19_Witness ==
    /\ Done
    /\ Len(report.most_confused_tags) = 3
    /\ report.most_confused_tags[1][1] = "B -> C"
    /\ report.most_confused_tags[2][1] = "A -> C"
    /\ report.most_confused_tags[1][2] = report.most_confused_tags[2][2]

\* the tags of the scored items, the accuracy of a tag, and where the dataset
\* shows a tag first: the item, then the place in the item's tag list
SeenTags == UNION { TruthOf(i) : i \in Scored }

AccuracyOf(t) ==
    IF DictGet(per_tag_total, t) > 0
    THEN <<DictGet(per_tag_correct, t), DictGet(per_tag_total, t)>>
    ELSE <<0, 1>>

SameRatio(a, b) == a[1] * b[2] = b[1] * a[2]

FirstItemWith(t) ==
    CHOOSE i \in Scored : t \in TruthOf(i) /\ \A j \in Scored : t \in TruthOf(j) => i <= j

PlaceIn(gt_tags, t) ==
    CHOOSE k \in 1..Len(gt_tags) :
        gt_tags[k] = t /\ \A l \in 1..Len(gt_tags) : gt_tags[l] = t => k <= l

FirstSeen(t) == 4 * FirstItemWith(t) + PlaceIn(results[FirstItemWith(t)].ground_truth_tags, t)

\* a stands before b by descending accuracy, and by ascending accuracy
BetterFirst(a, b) ==
    \/ RatioLess(AccuracyOf(b), AccuracyOf(a))
    \/ SameRatio(AccuracyOf(a), AccuracyOf(b)) /\ FirstSeen(a) < FirstSeen(b)

WorseFirst(a, b) ==
    \/ RatioLess(AccuracyOf(a), AccuracyOf(b))
    \/ SameRatio(AccuracyOf(a), AccuracyOf(b)) /\ FirstSeen(a) < FirstSeen(b)

MinOf3(n) == IF n < 3 THEN n ELSE 3

\* C20: the accuracy of a tag is per_tag_correct / per_tag_total; the best
\* categories are the first min(3, #tags) tags by descending accuracy, the
\* worst categories the first min(3, #tags) by ascending accuracy, and in both
\* lists tags of equal accuracy stand in the order in which the dataset
\* showed them first.
C20_BestAndWorst ==
    Done =>
        LET best == report.best_performing_categories
            worst == report.worst_performing_categories
            InBest == { best[j] : j \in 1..Len(best) }
            InWorst == { worst[j] : j \in 1..Len(worst) }
        IN /\ DictKeys(per_tag_total) = SeenTags
           /\ \A t \in SeenTags :
                 /\ DictGet(per_tag_total, t) =
                       Cardinality({ e \in Scored \X (1..3) :
                           /\ e[2] <= Len(evaluation_data[e[1]].ground_truth_tags)
                           /\ evaluation_data[e[1]].ground_truth_tags[e[2]].tag = t })
                 /\ DictGet(per_tag_correct, t) =
                       Cardinality({ i \in Scored :
                           results[i].is_correct /\ results[i].predicted_tag1 = t })
           /\ Len(best) = MinOf3(Cardinality(SeenTags))
           /\ Len(worst) = MinOf3(Cardinality(SeenTags))
           /\ InBest \subseteq SeenTags
           /\ InWorst \subseteq SeenTags
           /\ \A i, j \in 1..Len(best) : i < j => BetterFirst(best[i], best[j])
           /\ \A i, j \in 1..Len(worst) : i < j => WorseFirst(worst[i], worst[j])
           /\ \A a \in InBest : \A b \in SeenTags \ InBest : BetterFirst(a, b)
           /\ \A a \in InWorst : \A b \in SeenTags \ InWorst : WorseFirst(a, b)

C20_Witness ==
    /\ Done
    /\ Len(per_tag_total) = 4
    /\ report.best_performing_categories = <<"C", "B", "A">>
    /\ report.worst_performing_categories = <<"B", "A", "D">>
    /\ SameRatio(AccuracyOf("A"), AccuracyOf("B"))

\* the ground-truth entries of the scored items, and the scored items that
\* were predicted a tag1
TruthEntries ==
    { e \in Scored \X (1..3) : e[2] <= Len(evaluation_data[e[1]].ground_truth_tags) }

Predicted == { i \in Scored : results[i].predicted_tag1 # None }

RECURSIVE ConfidenceSum(_)
ConfidenceSum(rs) ==
    IF rs = <<>> THEN 0 ELSE rs[1].predicted_confidence + ConfidenceSum(Tail(rs))

\* C23: after any prefix of processed items, succeeded or failed, the sum of
\* per_tag_total is the number of ground-truth tags of those items and every
\* tag's total is the number of its occurrences in them; a failed item is in
\* no other accumulator: the correct count, the confidence sum, the confusion
\* counts and TP + FP + FN are those of the succeeded items alone.
C23_OncePerItem ==
    /\ DictSum(per_tag_total) = Cardinality(TruthEntries)
    /\ \A t \in Tags :
          DictGet(per_tag_total, t) =
             Cardinality({ e \in TruthEntries :
                 evaluation_data[e[1]].ground_truth_tags[e[2]].tag = t })
    /\ correct_predictions_overall =
          Cardinality({ i \in Scored : Succeeded(i) /\ results[i].is_correct })
    /\ \A i \in Scored :
          ~Succeeded(i) =>
             /\ ~results[i].is_correct
             /\ results[i].predicted_confidence = 0
             /\ i \notin Predicted
    /\ total_confidence = ConfidenceSum(results)
    /\ DictSum(per_tag_correct) =
          Cardinality({ i \in Scored : Succeeded(i) /\ results[i].is_correct })
    /\ SumTp + SumFp + SumFn =
          Cardinality({ e \in Scored \X Tags :
              /\ Succeeded(e[1])
              /\ e[2] \in TruthOf(e[1]) \cup {results[e[1]].predicted_tag1} })

C23_Witness ==
    /\ Len(results) = 3
    /\ ~Succeeded(1)
    /\ Succeeded(2)
    /\ ~Succeeded(3)
    /\ DictSum(per_tag_total) = 5
    /\ SumTp + SumFp + SumFn > 0

\* C24: in every run the sum of tp_counts is correct_predictions_overall and
\* the accuracy@3 numerator, and sumTP + sumFP is the number of items that
\* were predicted a tag1.
C24_TruePositivesAreCorrectItems ==
    /\ SumTp = correct_predictions_overall
    /\ SumTp = CorrectAt3(results)
    /\ SumTp + SumFp = Cardinality(Predicted)
    /\ Done => /\ report.correct_predictions = SumTp
               /\ report.accuracy_at_3[1] = SumTp

C24_Witness ==
    /\ Done
    /\ SumTp = 2
    /\ SumFp = 1
    /\ \E i \in Scored : results[i].match_priority = 2

\* C25: after any sequence of items the sum of fp_counts is the sum of the
\* confusion counts.
C25_FalsePositivesAreConfusions == SumFp = DictSum(confusion_counter)

C25_Witness ==
    /\ Len(results) = 3
    /\ SumFp = 2
    /\ Len(confusion_counter) = 1
    /\ SumTp = 1

\* C26: after any prefix of processed items per_tag_correct[t] is at most
\* per_tag_total[t] for every tag, only tags of some item's ground truth
\* have a per-tag count, and in the report every accuracy lies in [0, 1] and
\* the best and worst lists hold ground-truth tags only.
C26_PerTagBounds ==
    /\ \A t \in Tags : DictGet(per_tag_correct, t) <= DictGet(per_tag_total, t)
    /\ DictKeys(per_tag_correct) \subseteq DictKeys(per_tag_total)
    /\ DictKeys(per_tag_total) = SeenTags
    /\ LET acc == TagAccuracy(per_tag_total, per_tag_correct)
       IN /\ { acc[j][1] : j \in 1..Len(acc) } = SeenTags
          /\ \A j \in 1..Len(acc) :
                acc[j][2][2] > 0 /\ 0 <= acc[j][2][1] /\ acc[j][2][1] <= acc[j][2][2]
    /\ Done =>
          /\ \A j \in 1..Len(report.best_performing_categories) :
                report.best_performing_categories[j] \in SeenTags
          /\ \A j \in 1..Len(report.worst_performing_categories) :
                report.worst_performing_categories[j] \in SeenTags

C26_Witness ==
    /\ Done
    /\ SeenTags = {"B", "D"}
    /\ \E i \in Scored : results[i].predicted_tag1 = "C"
    /\ \E i \in Scored : results[i].predicted_tag1 = "B" /\ results[i].is_correct

\* C27: in every run accuracy@1 <= weighted_accuracy <= accuracy@3, and in
\* integers 6 * correct_at_1 <= the rank weights in sixths <= 6 * correct_at_3.
C27_WeightedBetween ==
    /\ 6 * CorrectAt1(results) <= TotalWeight6(results)
    /\ TotalWeight6(results) <= 6 * CorrectAt3(results)
    /\ Done =>
          /\ RatioLeq(report.accuracy_at_1, report.weighted_accuracy)
          /\ RatioLeq(report.weighted_accuracy, report.accuracy_at_3)

C27_Witness ==
    /\ Done
    /\ RatioLess(report.accuracy_at_1, report.weighted_accuracy)
    /\ RatioLess(report.weighted_accuracy, report.accuracy_at_3)
    /\ RatioLess(<<0, 1>>, report.accuracy_at_1)

\* C28: every outcome counted as exact at 2 has match_priority 1 and every
\* outcome counted as exact at 3 is counted as exact at 2, a failed item is
\* counted as neither, and exact_match@3 <= exact_match@2 <= accuracy@1.
C28_ExactWithinRankOne ==
    /\ \A i \in Scored :
          /\ ExactAt2(results[i]) => results[i].match_priority = 1
          /\ ExactAt3(results[i]) => ExactAt2(results[i])
          /\ ~Succeeded(i) => ~ExactAt2(results[i]) /\ ~ExactAt3(results[i])
    /\ Exact3Count(results) <= Exact2Count(results)
    /\ Exact2Count(results) <= CorrectAt1(results)
    /\ Done =>
          /\ RatioLeq(report.exact_match_at_3, report.exact_match_at_2)
          /\ RatioLeq(report.exact_match_at_2, report.accuracy_at_1)

C28_Witness ==
    /\ Done
    /\ RatioLess(report.exact_match_at_3, report.exact_match_at_2)
    /\ RatioLess(report.exact_match_at_2, report.accuracy_at_1)
    /\ \E i \in Scored : ~Succeeded(i)

\* what process_single_event did for the items of a result list
OutcomeOf(r) ==
    IF r.error_message # None THEN Raises
    ELSE Triple(r.predicted_tag1, r.predicted_tag2, r.predicted_tag3,
                r.predicted_confidence)

OutcomesOf(rs) == [i \in 1..Len(rs) |-> OutcomeOf(rs[i])]

BothDone == Done /\ second.pc = "done"

\* C21: two runs over the same dataset in which the predictor gave the same
\* outcome for every item return the same report: metrics, outcomes,
\* confusion map and best and worst categories.
C21_SameOutcomesSameReport ==
    (BothDone /\ second.items = evaluation_data
              /\ OutcomesOf(second.run.results) = OutcomesOf(results)) =>
        second.report = report

C21_Witness ==
    /\ BothDone
    /\ Len(results) = 2
    /\ OutcomesOf(second.run.results) = OutcomesOf(results)
    /\ report.most_confused_tags # <<>>
    /\ \E i \in Scored : ~Succeeded(i)
    /\ second.report = report

\* C22: with two runs interleaved at the awaits, the locals of each run are
\* at every moment those of a run by itself over its own items and outcomes,
\* and so is its report; both runs iterate the loaded dataset.
C22_RunsAreIndependent ==
    /\ pc \in {"loop", "done"} =>
          Locals = Alone(evaluation_data, OutcomesOf(results))
    /\ Done => report = ReportOf(Alone(evaluation_data, OutcomesOf(results)))
    /\ second.pc \in {"loop", "done"} =>
          /\ second.items = LoadEvaluationData(csv_rows)
          /\ second.run = Alone(second.items, OutcomesOf(second.run.results))
    /\ second.pc = "done" =>
          second.report =
              ReportOf(Alone(second.items, OutcomesOf(second.run.results)))

C22_Witness ==
    /\ pc = "loop"
    /\ second.pc = "loop"
    /\ Len(results) = 1
    /\ Len(second.run.results) = 1
    /\ Succeeded(1)
    /\ second.run.results[1].error_message # None
    /\ Len(evaluation_data) = 2
    /\ DictSum(per_tag_total) > 0

\* the orders in which n items can be processed
Orders(n) == { f \in [1..n -> 1..n] : \A i, j \in 1..n : f[i] = f[j] => i = j }

\* the run over the scored items taken in the order f, each with its outcome
Reordered(f) ==
    Alone([j \in 1..Len(results) |-> evaluation_data[f[j]]],
          [j \in 1..Len(results) |-> OutcomeOf(results[f[j]])])

Pairs(d) == { d[j] : j \in 1..Len(d) }

\* C29: for every order of the items, each keeping its outcome, the run has
\* the same outcome per item and the same counters: accuracy@k numerators,
\* exact-match counts, rank weights, TP, FP and FN per tag, correct count,
\* per-tag totals and correct counts, and confusion count per key; only the
\* order of the entries may differ.
C29_OrderIndependent ==
    Done =>
        \A f \in Orders(Len(results)) :
            LET run == Reordered(f)
            IN /\ \A j \in 1..Len(results) : run.results[j] = results[f[j]]
               /\ CorrectAt1(run.results) = CorrectAt1(results)
               /\ CorrectAt2(run.results) = CorrectAt2(results)
               /\ CorrectAt3(run.results) = CorrectAt3(results)
               /\ Exact2Count(run.results) = Exact2Count(results)
               /\ Exact3Count(run.results) = Exact3Count(results)
               /\ TotalWeight6(run.results) = TotalWeight6(results)
               /\ run.tp_counts = tp_counts
               /\ run.fp_counts = fp_counts
               /\ run.fn_counts = fn_counts
               /\ run.correct_predictions_overall = correct_predictions_overall
               /\ Pairs(run.per_tag_total) = Pairs(per_tag_total)
               /\ Pairs(run.per_tag_correct) = Pairs(per_tag_correct)
               /\ Pairs(run.confusion_counter) = Pairs(confusion_counter)
               /\ Len(run.per_tag_total) = Len(per_tag_total)
               /\ Len(run.confusion_counter) = Len(confusion_counter)

C29_Witness ==
    /\ Done
    /\ Len(results) = 3
    /\ \E f \in Orders(3) :
          /\ Reordered(f).confusion_counter # confusion_counter
          /\ Reordered(f).per_tag_total # per_tag_total
          /\ MostConfused(Reordered(f).confusion_counter) # report.most_confused_tags
    /\ CorrectAt3(results) > 0

IsPrefix(s, t) == Len(s) <= Len(t) /\ \A j \in 1..Len(s) : s[j] = t[j]

Called(service) == \E j \in 1..Len(event.calls) : event.calls[j] = service

Flagged ==
    /\ Called("check_sensitive_content")
    /\ event.sensitivity_check.contains_sensitive_content

\* C30: process_single_event awaits its services in the order validate,
\* sensitivity check, prompt generation, LLM call, parse, confidence, review,
\* and returns a success only after all of them; when the sensitivity check
\* flags the arrangement it returns an error response that needs human
\* review, and the prompt generator and the LLM client are never called;
\* every error response it returns needs human review; it never raises.
C30_PipelineOrder ==
    /\ IsPrefix(event.calls, Pipeline)
    /\ event.pc \in { "absent", "validate", "sensitive", "prompt", "llm", "parse",
                      "confidence", "review", "build", "returned" }
    /\ Flagged =>
          /\ event.pc = "returned"
          /\ event.response.status = "error"
          /\ event.response.needs_human_review
          /\ ~Called("generate_tagging_prompt")
          /\ ~Called("get_tags")
    /\ event.pc = "returned" =>
          /\ event.response.status \in {"error", "success"}
          /\ event.response.status = "error" => event.response.needs_human_review
          /\ event.response.status = "success" =>
                event.calls = Pipeline /\ ~Flagged
    /\ event.pc # "returned" => event.response = NoResponse

C30_Witness ==
    /\ event.pc = "returned"
    /\ Flagged
    /\ event.request.arrangement_titel = <<"Jazz">>
    /\ event.calls = <<"validate_and_clean", "check_sensitive_content">>
    /\ event.response.needs_human_review

====
